---- MODULE Spec2Model ----
(***************************************************************************)
(* CardinalRemote: the bootstrap in src/CardinalRemote/main.cpp.           *)
(*                                                                         *)
(* Several instances of the program run main() on one machine.  They share *)
(* the build/platform configuration and the temp root of the filesystem;   *)
(* everything else (the asset paths, the context, the components) is the   *)
(* instance's own memory.  A path is a sequence of string pieces, the      *)
(* empty sequence being the empty string.                                  *)
(***************************************************************************)
EXTENDS Integers, Sequences, FiniteSets, TLC

\* ---------------------------------------------------------------- bounds
NumInst == 2
MaxCounter == 3

Instances == 1..NumInst
Counters == 1..MaxCounter

VARIABLES
    cfg,            \* build and platform configuration, fixed for the run
    fs,             \* names that exist in the temp root
    creator,        \* name -> instance whose createDirectories made it (0: none)
    pc,             \* instance -> position in main()
    systemDir, userDir, bundlePath,     \* asset:: globals of each instance
    templatePath,   \* main's local std::string templatePath
    autosavePath,   \* main's local std::string autosavePath
    tmp,            \* main's local tmp (temp root)
    i,              \* the loop counter of the scratch search
    trypath,        \* the candidate of the current iteration
    created,        \* the path this instance's createDirectories created
    createReturned, \* what its createDirectories call answered, if it answered
    collided,       \* it called createDirectories on a candidate taken meanwhile
    removed,        \* the path this instance passed to removeRecursively
    context,        \* the CardinalPluginContext local (a record)
    currentContext, \* what rack::contextSet registered (0: nothing)
    rootWidget,     \* context.event->rootWidget
    patchAutosavePath, patchTemplatePath,   \* context.patch->...
    nextObj,        \* the next fresh object identity of the instance
    log             \* the calls the instance made to its collaborators

pathVars == <<systemDir, userDir, bundlePath, templatePath>>
allocVars == <<autosavePath, tmp, i, trypath, created, createReturned, collided>>
fsVars == <<fs, creator>>
ctxVars == <<context, currentContext, rootWidget, patchAutosavePath,
             patchTemplatePath, nextObj>>
vars == <<cfg, fs, creator, pc, systemDir, userDir, bundlePath, templatePath,
          autosavePath, tmp, i, trypath, created, createReturned, collided,
          removed, context,
          currentContext, rootWidget, patchAutosavePath, patchTemplatePath,
          nextObj, log>>

\* ---------------------------------------------------------------- paths
EmptyStr == <<>>

\* rack::system::join: the two paths with a separator between them.
Join(a, b) == IF a = EmptyStr THEN b ELSE a \o <<"/">> \o b

\* CARDINAL_PLUGIN_SOURCE_DIR and CARDINAL_PLUGIN_PREFIX of the build.
SourceDir == <<"SRC">>
Prefix == <<"PREFIX">>
\* getSpecialPath(kSpecialPathCommonProgramFiles) when the query succeeds.
CommonProgramFiles == <<"CPF">>

SourceSystemDir == SourceDir \o <<"/">> \o <<"Rack">>
SourceTemplate == SourceDir \o <<"/">> \o <<"template.vcv">>
MacSystemDir == <<"/Library/Application Support/Cardinal">>
PrefixSystemDir == Prefix \o <<"/share/cardinal">>

\* The platform default of lines 114-122: a system directory already set
\* (by line 104) stays when the platform assigns none.
PlatformDefault(c, sysdir) ==
    CASE c.arch = "MAC" -> MacSystemDir
      [] c.arch = "WIN" -> IF c.cpf THEN Join(CommonProgramFiles, <<"Cardinal">>)
                                    ELSE sysdir
      [] OTHER -> PrefixSystemDir

\* The configurations: the architecture, whether the source directory is
\* compiled in, whether <source>/Rack/res and <source>/template.vcv exist,
\* whether the common-program-files query answers, and whether the resolved
\* system directory exists.
Configs ==
    { c \in [arch : {"MAC", "WIN", "OTHER"}, srcDir : BOOLEAN, resExists : BOOLEAN,
             tmplExists : BOOLEAN, cpf : BOOLEAN, sysExists : BOOLEAN] :
        /\ (c.resExists => c.srcDir)
        /\ (c.tmplExists => c.resExists)
        /\ (c.arch # "WIN" => c.cpf) }

\* The configurations under which the interleavings of several instances are
\* explored (the configuration never reaches the temp root): a build beside a
\* source tree without resources on the platform whose query fails, and an
\* installed build of the default platform.
MachineConfigs ==
    { c \in Configs :
        \/ /\ c.arch = "WIN" /\ c.srcDir /\ ~c.resExists /\ ~c.cpf /\ ~c.sysExists
        \/ /\ c.arch = "OTHER" /\ ~c.srcDir /\ c.sysExists }

\* ---------------------------------------------------------------- names
DigitChar(d) == <<"0", "1", "2", "3", "4", "5", "6", "7", "8", "9">>[d + 1]

RECURSIVE Digits(_)
Digits(n) == IF n < 10 THEN <<DigitChar(n)>>
             ELSE Digits(n \div 10) \o <<DigitChar(n % 10)>>

RECURSIVE ZeroPad(_, _)
ZeroPad(s, w) == IF Len(s) >= w THEN s ELSE ZeroPad(<<"0">> \o s, w)

\* The counter printed with %d.
UidBufUnpadded(n) == <<"CardinalRemote.">> \o Digits(n)

\* std::snprintf(uidBuf, sizeof(uidBuf), "CardinalRemote.%04d", i)
UidBuf(n) == <<"CardinalRemote.">> \o ZeroPad(Digits(n), 4)

\* rack::system::getTempDirectory()
TempDirectory == <<"TMP">>

TryPath(t, n) == Join(t, UidBuf(n))

\* The candidates the model can name.
Candidates == { TryPath(TempDirectory, n) : n \in Counters }

\* ---------------------------------------------------------------- context
NullPtr == 0

\* CardinalPluginContext context(nullptr): no component yet.
NewContext(id) ==
    [id |-> id, alive |-> TRUE, bufferSize |-> 0, sampleRate |-> 0,
     engine |-> NullPtr, history |-> NullPtr, patch |-> NullPtr,
     event |-> NullPtr, scene |-> NullPtr, window |-> NullPtr]

NoContext ==
    [id |-> NullPtr, alive |-> FALSE, bufferSize |-> 0, sampleRate |-> 0,
     engine |-> NullPtr, history |-> NullPtr, patch |-> NullPtr,
     event |-> NullPtr, scene |-> NullPtr, window |-> NullPtr]

\* ---------------------------------------------------------------- schedule
\* Steps whose moment matters to the other instances: the probe and the
\* creation of a candidate, and the steps the user decides the moment of
\* (launching the program, closing the window).  Every other step works on
\* the instance's own memory and commutes with the steps of other instances;
\* the removal of the scratch directory follows the closing of the window
\* with private steps only in between, so the moment of the closing stands
\* for its own.
SharedPcs == {"start", "probe", "create", "exec", "done", "aborted"}

IsLocal(p) == pc[p] \notin SharedPcs

\* Instance p is at label l and it is its turn: a step on private memory runs
\* as soon as it is enabled, the lowest instance first.
At(p, l) ==
    /\ pc[p] = l
    /\ \A q \in Instances \ {p} : IsLocal(q) => (IsLocal(p) /\ p < q)

Goto(p, l) == pc' = [pc EXCEPT ![p] = l]

Logged(p, es) == log' = [log EXCEPT ![p] = @ \o es]

\* ---------------------------------------------------------------- start
\* Nothing has run yet: no instance has created anything.
Fresh ==
    /\ creator = [c \in Candidates |-> 0]
    /\ pc = [p \in Instances |-> "start"]
    /\ systemDir = [p \in Instances |-> EmptyStr]
    /\ userDir = [p \in Instances |-> EmptyStr]
    /\ bundlePath = [p \in Instances |-> EmptyStr]
    /\ templatePath = [p \in Instances |-> EmptyStr]
    /\ autosavePath = [p \in Instances |-> EmptyStr]
    /\ tmp = [p \in Instances |-> EmptyStr]
    /\ i = [p \in Instances |-> 0]
    /\ trypath = [p \in Instances |-> EmptyStr]
    /\ created = [p \in Instances |-> EmptyStr]
    /\ createReturned = [p \in Instances |-> "none"]
    /\ collided = [p \in Instances |-> FALSE]
    /\ removed = [p \in Instances |-> EmptyStr]
    /\ context = [p \in Instances |-> NoContext]
    /\ currentContext = [p \in Instances |-> NullPtr]
    /\ rootWidget = [p \in Instances |-> NullPtr]
    /\ patchAutosavePath = [p \in Instances |-> EmptyStr]
    /\ patchTemplatePath = [p \in Instances |-> EmptyStr]
    /\ nextObj = [p \in Instances |-> 1]
    /\ log = [p \in Instances |-> <<>>]

\* A candidate may be left over from an earlier run.
Init ==
    /\ cfg \in MachineConfigs
    /\ fs \in {stale \in SUBSET Candidates : Cardinality(stale) <= 1}
    /\ Fresh

\* ---------------------------------------------------------------- startup
\* lines 67-94: the settings:: fields.  The instances are interchangeable and
\* are numbered in the order in which they are launched.
Settings(p) ==
    /\ At(p, "start")
    /\ \A q \in Instances : q < p => pc[q] # "start"
    /\ Logged(p, <<"settings">>)
    /\ Goto(p, "init")
    /\ UNCHANGED <<cfg, fsVars, pathVars, allocVars, removed, ctxVars>>

\* lines 96-99
InitSubsystems(p) ==
    /\ At(p, "init")
    /\ Logged(p, <<"system::init", "logger::init", "random::init", "ui::init">>)
    /\ Goto(p, "resolve")
    /\ UNCHANGED <<cfg, fsVars, pathVars, allocVars, removed, ctxVars>>

\* lines 101-109, compiled in when CARDINAL_PLUGIN_SOURCE_DIR is defined.
ResolveOverride(p) ==
    /\ At(p, "resolve")
    /\ cfg.srcDir
    /\ systemDir' = [systemDir EXCEPT ![p] = SourceSystemDir]
    /\ IF cfg.resExists
         THEN /\ templatePath' = [templatePath EXCEPT ![p] = SourceTemplate]
              /\ Goto(p, "userDir")
         ELSE /\ UNCHANGED templatePath
              /\ Goto(p, "default")
    /\ UNCHANGED <<cfg, fsVars, userDir, bundlePath, allocVars, removed, ctxVars, log>>

\* The paths derived without the test: relative names when nothing resolved.
DerivesAlways(sd) == TRUE

\* line 124: if (! asset::systemDir.empty())
Derives(sd) == sd # EmptyStr

\* lines 113-129: the platform default and the paths derived from it.
ResolveDefault(p) ==
    /\ \/ At(p, "default")
       \/ At(p, "resolve") /\ ~cfg.srcDir
    /\ LET sd == PlatformDefault(cfg, systemDir[p]) IN
         /\ systemDir' = [systemDir EXCEPT ![p] = sd]
         /\ IF Derives(sd)
              THEN /\ bundlePath' = [bundlePath EXCEPT
                                       ![p] = Join(sd, <<"PluginManifests">>)]
                   /\ templatePath' = [templatePath EXCEPT
                                         ![p] = Join(sd, <<"template.vcv">>)]
              ELSE UNCHANGED <<bundlePath, templatePath>>
    /\ Goto(p, "userDir")
    /\ UNCHANGED <<cfg, fsVars, userDir, allocVars, removed, ctxVars, log>>

\* line 131
AssignUserDir(p) ==
    /\ At(p, "userDir")
    /\ userDir' = [userDir EXCEPT ![p] = systemDir[p]]
    /\ Goto(p, "report")
    /\ UNCHANGED <<cfg, fsVars, systemDir, bundlePath, templatePath, allocVars,
                   removed, ctxVars, log>>

\* lines 133-151: the environment lines and the installation warning.
ReportInstall(p) ==
    /\ At(p, "report")
    /\ Logged(p, <<"INFO environment">> \o
                 (IF systemDir[p] = EmptyStr THEN <<"warn: failed to locate bundle">>
                  ELSE IF ~cfg.sysExists THEN <<"warn: system directory missing">>
                  ELSE <<>>))
    /\ Goto(p, "plugins")
    /\ UNCHANGED <<cfg, fsVars, pathVars, allocVars, removed, ctxVars>>

\* lines 153-154
InitStaticPlugins(p) ==
    /\ At(p, "plugins")
    /\ Logged(p, <<"initStaticPlugins">>)
    /\ Goto(p, "browser")
    /\ UNCHANGED <<cfg, fsVars, pathVars, allocVars, removed, ctxVars>>

\* lines 156-157
BrowserInit(p) ==
    /\ At(p, "browser")
    /\ Logged(p, <<"browserInit">>)
    /\ Goto(p, "tmpdir")
    /\ UNCHANGED <<cfg, fsVars, pathVars, allocVars, removed, ctxVars>>

\* ---------------------------------------------------------------- scratch
\* The answer of createDirectories ignored.
ClaimedPathIgnoringResult(ok, path, old) == path

\* lines 173-174: autosavePath is assigned only when createDirectories
\* answered true.
ClaimedPath(ok, path, old) == IF ok THEN path ELSE old

\* line 171: rack::system::exists(trypath)
Exists(path) == path \in fs

\* The locals of the try block (tmp, i, trypath) end with it.
LeaveBlock(p) ==
    /\ tmp' = [tmp EXCEPT ![p] = EmptyStr]
    /\ i' = [i EXCEPT ![p] = 0]
    /\ trypath' = [trypath EXCEPT ![p] = EmptyStr]

\* lines 160-164: the declaration, and inside the try block the temp root.
\* getTempDirectory may raise.
GetTempDirectory(p) ==
    /\ At(p, "tmpdir")
    /\ autosavePath' = [autosavePath EXCEPT ![p] = EmptyStr]
    /\ \/ /\ tmp' = [tmp EXCEPT ![p] = TempDirectory]
          /\ i' = [i EXCEPT ![p] = 1]
          /\ Goto(p, "probe")
       \/ /\ UNCHANGED <<tmp, i>>
          /\ Goto(p, "catch")
    /\ UNCHANGED <<cfg, fsVars, pathVars, trypath, created, createReturned,
                   collided, removed, ctxVars, log>>

\* The counter skipping a value.
SkipCounter(n) == n + 2

\* line 166: ++i
NextCounter(n) == n + 1

\* lines 166-171 and the ++i of line 166: one iteration's probe.  exists may
\* raise.  The counter is capped at MaxCounter.
Probe(p) ==
    /\ At(p, "probe")
    /\ i[p] <= MaxCounter
    /\ LET path == TryPath(tmp[p], i[p]) IN
         \/ /\ Exists(path)
            /\ trypath' = [trypath EXCEPT ![p] = EmptyStr]
            /\ i' = [i EXCEPT ![p] = NextCounter(@)]
            /\ Goto(p, "probe")
            /\ UNCHANGED tmp
         \/ /\ ~Exists(path)
            /\ trypath' = [trypath EXCEPT ![p] = path]
            /\ Goto(p, "create")
            /\ UNCHANGED <<tmp, i>>
         \/ /\ Goto(p, "catch")
            /\ LeaveBlock(p)
    /\ UNCHANGED <<cfg, fsVars, pathVars, autosavePath, created, createReturned,
                   collided, removed, ctxVars, log>>

\* The break inside the if: a failed creation goes round the loop again.
RetryAfterFailure(ok) == IF ok THEN "context" ELSE "probe"

\* line 175: the break follows the if, whatever createDirectories answered.
AfterCreate(ok) == "context"

\* lines 173-175: createDirectories on the candidate, then break.  It makes
\* the directory and answers true only if nothing is there; otherwise it
\* answers false or raises, and makes nothing.
CreateReturns(p, ok, path) ==
    /\ createReturned' = [createReturned EXCEPT ![p] = IF ok THEN "true" ELSE "false"]
    /\ autosavePath' = [autosavePath EXCEPT ![p] = ClaimedPath(ok, path, @)]
    /\ Goto(p, AfterCreate(ok))
    /\ IF AfterCreate(ok) = "probe" THEN UNCHANGED <<tmp, i, trypath>>
                                    ELSE LeaveBlock(p)

CreateDir(p) ==
    /\ At(p, "create")
    /\ LET path == trypath[p] IN
         /\ collided' = [collided EXCEPT ![p] = Exists(path)]
         /\ \/ /\ ~Exists(path)
               /\ fs' = fs \cup {path}
               /\ creator' = [creator EXCEPT ![path] = p]
               /\ created' = [created EXCEPT ![p] = path]
               /\ CreateReturns(p, TRUE, path)
            \/ /\ CreateReturns(p, FALSE, path)
               /\ UNCHANGED <<fsVars, created>>
            \/ /\ Goto(p, "catch")
               /\ LeaveBlock(p)
               /\ UNCHANGED <<fsVars, created, autosavePath, createReturned>>
    /\ UNCHANGED <<cfg, pathVars, removed, ctxVars, log>>

\* The exception leaves main: the process is terminated.
ExceptionEscapes == "aborted"

\* line 178: DISTRHO_SAFE_EXCEPTION catches whatever the block raised, and
\* main goes on at line 180.
AfterException == "context"

CatchAlloc(p) ==
    /\ At(p, "catch")
    /\ Logged(p, <<"d_safe_exception">>)
    /\ Goto(p, AfterException)
    /\ UNCHANGED <<cfg, fsVars, pathVars, allocVars, removed, ctxVars>>

\* ---------------------------------------------------------------- context
\* Line 181 left out: the context is never registered.
AfterContextUnregistered == "params"

\* line 181 follows line 180.
AfterContext == "contextSet"

\* line 180
ConstructContext(p) ==
    /\ At(p, "context")
    /\ context' = [context EXCEPT ![p] = NewContext(nextObj[p])]
    /\ nextObj' = [nextObj EXCEPT ![p] = @ + 1]
    /\ Logged(p, <<"CardinalPluginContext">>)
    /\ Goto(p, AfterContext)
    /\ UNCHANGED <<cfg, fsVars, pathVars, allocVars, removed, currentContext,
                   rootWidget, patchAutosavePath, patchTemplatePath>>

\* line 181: rack::contextSet(&context)
ContextSet(p) ==
    /\ At(p, "contextSet")
    /\ currentContext' = [currentContext EXCEPT ![p] = context[p].id]
    /\ Logged(p, <<"contextSet">>)
    /\ Goto(p, "params")
    /\ UNCHANGED <<cfg, fsVars, pathVars, allocVars, removed, context,
                   rootWidget, patchAutosavePath, patchTemplatePath, nextObj>>

\* lines 183-184
SetRunParams(p) ==
    /\ At(p, "params")
    /\ context' = [context EXCEPT ![p].bufferSize = 512, ![p].sampleRate = 48000]
    /\ Goto(p, "engine")
    /\ UNCHANGED <<cfg, fsVars, pathVars, allocVars, removed, currentContext,
                   rootWidget, patchAutosavePath, patchTemplatePath, nextObj, log>>

\* lines 186-187
NewEngine(p) ==
    /\ At(p, "engine")
    /\ context' = [context EXCEPT ![p].engine = nextObj[p]]
    /\ nextObj' = [nextObj EXCEPT ![p] = @ + 1]
    /\ Logged(p, <<"new Engine", "engine.setSampleRate">>)
    /\ Goto(p, "history")
    /\ UNCHANGED <<cfg, fsVars, pathVars, allocVars, removed, currentContext,
                   rootWidget, patchAutosavePath, patchTemplatePath>>

\* line 189
NewHistory(p) ==
    /\ At(p, "history")
    /\ context' = [context EXCEPT ![p].history = nextObj[p]]
    /\ nextObj' = [nextObj EXCEPT ![p] = @ + 1]
    /\ Logged(p, <<"new history::State">>)
    /\ Goto(p, "patch")
    /\ UNCHANGED <<cfg, fsVars, pathVars, allocVars, removed, currentContext,
                   rootWidget, patchAutosavePath, patchTemplatePath>>

\* lines 190-192
NewPatch(p) ==
    /\ At(p, "patch")
    /\ context' = [context EXCEPT ![p].patch = nextObj[p]]
    /\ nextObj' = [nextObj EXCEPT ![p] = @ + 1]
    /\ patchAutosavePath' = [patchAutosavePath EXCEPT ![p] = autosavePath[p]]
    /\ patchTemplatePath' = [patchTemplatePath EXCEPT ![p] = templatePath[p]]
    /\ Logged(p, <<"new patch::Manager">>)
    /\ Goto(p, "event")
    /\ UNCHANGED <<cfg, fsVars, pathVars, allocVars, removed, currentContext,
                   rootWidget>>

\* line 194
NewEvent(p) ==
    /\ At(p, "event")
    /\ context' = [context EXCEPT ![p].event = nextObj[p]]
    /\ nextObj' = [nextObj EXCEPT ![p] = @ + 1]
    /\ Logged(p, <<"new EventState">>)
    /\ Goto(p, "scene")
    /\ UNCHANGED <<cfg, fsVars, pathVars, allocVars, removed, currentContext,
                   rootWidget, patchAutosavePath, patchTemplatePath>>

\* line 195
NewScene(p) ==
    /\ At(p, "scene")
    /\ context' = [context EXCEPT ![p].scene = nextObj[p]]
    /\ nextObj' = [nextObj EXCEPT ![p] = @ + 1]
    /\ Logged(p, <<"new Scene">>)
    /\ Goto(p, "root")
    /\ UNCHANGED <<cfg, fsVars, pathVars, allocVars, removed, currentContext,
                   rootWidget, patchAutosavePath, patchTemplatePath>>

\* The root widget linked to the wrong component.
RootTargetEvent(c) == c.event

\* line 196: context.event->rootWidget = context.scene
RootTarget(c) == c.scene

LinkRootWidget(p) ==
    /\ At(p, "root")
    /\ rootWidget' = [rootWidget EXCEPT ![p] = RootTarget(context[p])]
    /\ Goto(p, "window")
    /\ UNCHANGED <<cfg, fsVars, pathVars, allocVars, removed, context,
                   currentContext, patchAutosavePath, patchTemplatePath, nextObj,
                   log>>

\* line 197
NewWindow(p) ==
    /\ At(p, "window")
    /\ context' = [context EXCEPT ![p].window = nextObj[p]]
    /\ nextObj' = [nextObj EXCEPT ![p] = @ + 1]
    /\ Logged(p, <<"new Window">>)
    /\ Goto(p, "loadTemplate")
    /\ UNCHANGED <<cfg, fsVars, pathVars, allocVars, removed, currentContext,
                   rootWidget, patchAutosavePath, patchTemplatePath>>

\* The scroll reset left out.
AfterTemplateNoReset == "ui"

\* line 200 follows line 199.
AfterTemplate == "scroll"

\* line 199
LoadTemplate(p) ==
    /\ At(p, "loadTemplate")
    /\ Logged(p, <<"patch.loadTemplate">>)
    /\ Goto(p, AfterTemplate)
    /\ UNCHANGED <<cfg, fsVars, pathVars, allocVars, removed, ctxVars>>

\* line 200
ResetScroll(p) ==
    /\ At(p, "scroll")
    /\ Logged(p, <<"scene.rackScroll.reset">>)
    /\ Goto(p, "ui")
    /\ UNCHANGED <<cfg, fsVars, pathVars, allocVars, removed, ctxVars>>

\* lines 202-211: the application, its window and the remote UI.
BuildUI(p) ==
    /\ At(p, "ui")
    /\ Logged(p, <<"Application", "Window", "new CardinalRemoteUI">>)
    /\ Goto(p, "show")
    /\ UNCHANGED <<cfg, fsVars, pathVars, allocVars, removed, ctxVars>>

\* lines 213-214: the window is shown and the UI loop entered.
EnterExec(p) ==
    /\ At(p, "show")
    /\ Logged(p, <<"win.show", "app.exec">>)
    /\ Goto(p, "exec")
    /\ UNCHANGED <<cfg, fsVars, pathVars, allocVars, removed, ctxVars>>

\* exec() returning by an early path leaves main at once.
AfterExecEarlyExit == "return"

\* lines 214-216: main has no branch on how exec() returned; line 216 follows.
AfterExec == "clear"

\* line 214: exec() returns when the user closes the window.
ExecReturn(p) ==
    /\ At(p, "exec")
    /\ Logged(p, <<"exec returned">>)
    /\ Goto(p, AfterExec)
    /\ UNCHANGED <<cfg, fsVars, pathVars, allocVars, removed, ctxVars>>

\* ---------------------------------------------------------------- teardown
\* line 216
PatchClear(p) ==
    /\ At(p, "clear")
    /\ Logged(p, <<"patch.clear">>)
    /\ Goto(p, "remove")
    /\ UNCHANGED <<cfg, fsVars, pathVars, allocVars, removed, ctxVars>>

\* The scratch directory left behind.
ShouldRemoveNever(path) == FALSE

\* line 218
ShouldRemove(path) == path # EmptyStr

\* lines 218-219: removeRecursively takes the directory away.
RemoveScratch(p) ==
    /\ At(p, "remove")
    /\ IF ShouldRemove(autosavePath[p])
         THEN /\ fs' = fs \ {autosavePath[p]}
              /\ creator' = [c \in DOMAIN creator |->
                               IF c = autosavePath[p] THEN 0 ELSE creator[c]]
              /\ removed' = [removed EXCEPT ![p] = autosavePath[p]]
              /\ Logged(p, <<"removeRecursively">>)
         ELSE UNCHANGED <<fsVars, removed, log>>
    /\ Goto(p, "clrBundle")
    /\ UNCHANGED <<cfg, pathVars, allocVars, ctxVars>>

\* line 222
ClearBundlePath(p) ==
    /\ At(p, "clrBundle")
    /\ bundlePath' = [bundlePath EXCEPT ![p] = EmptyStr]
    /\ Goto(p, "clrSystem")
    /\ UNCHANGED <<cfg, fsVars, systemDir, userDir, templatePath, allocVars,
                   removed, ctxVars, log>>

\* line 223
ClearSystemDir(p) ==
    /\ At(p, "clrSystem")
    /\ systemDir' = [systemDir EXCEPT ![p] = EmptyStr]
    /\ Goto(p, "clrUser")
    /\ UNCHANGED <<cfg, fsVars, bundlePath, userDir, templatePath, allocVars,
                   removed, ctxVars, log>>

\* line 224
ClearUserDir(p) ==
    /\ At(p, "clrUser")
    /\ userDir' = [userDir EXCEPT ![p] = EmptyStr]
    /\ Goto(p, "destroyPlugins")
    /\ UNCHANGED <<cfg, fsVars, bundlePath, systemDir, templatePath, allocVars,
                   removed, ctxVars, log>>

\* lines 226-227
DestroyStaticPlugins(p) ==
    /\ At(p, "destroyPlugins")
    /\ Logged(p, <<"destroyStaticPlugins">>)
    /\ Goto(p, "destroySettings")
    /\ UNCHANGED <<cfg, fsVars, pathVars, allocVars, removed, ctxVars>>

\* lines 229-230
SettingsDestroy(p) ==
    /\ At(p, "destroySettings")
    /\ Logged(p, <<"settings::destroy">>)
    /\ Goto(p, "destroyLogger")
    /\ UNCHANGED <<cfg, fsVars, pathVars, allocVars, removed, ctxVars>>

\* lines 232-233
LoggerDestroy(p) ==
    /\ At(p, "destroyLogger")
    /\ Logged(p, <<"logger::destroy">>)
    /\ Goto(p, "return")
    /\ UNCHANGED <<cfg, fsVars, pathVars, allocVars, removed, ctxVars>>

\* lines 235-236: return 0; the locals of main are destroyed at the closing
\* brace in the reverse order of their declaration (remoteUI, win, app,
\* context).  Nothing un-registers the context.
Return(p) ==
    /\ At(p, "return")
    /\ context' = [context EXCEPT ![p].alive = FALSE]
    /\ Logged(p, <<"return 0", "~CardinalRemoteUI", "~Window", "~Application",
                   "~CardinalPluginContext">>)
    /\ Goto(p, "done")
    /\ UNCHANGED <<cfg, fsVars, pathVars, allocVars, removed, currentContext,
                   rootWidget, patchAutosavePath, patchTemplatePath, nextObj>>

\* ---------------------------------------------------------------- system
Step(p) ==
    \/ Settings(p)
    \/ InitSubsystems(p)
    \/ ResolveOverride(p)
    \/ ResolveDefault(p)
    \/ AssignUserDir(p)
    \/ ReportInstall(p)
    \/ InitStaticPlugins(p)
    \/ BrowserInit(p)
    \/ GetTempDirectory(p)
    \/ Probe(p)
    \/ CreateDir(p)
    \/ CatchAlloc(p)
    \/ ConstructContext(p)
    \/ ContextSet(p)
    \/ SetRunParams(p)
    \/ NewEngine(p)
    \/ NewHistory(p)
    \/ NewPatch(p)
    \/ NewEvent(p)
    \/ NewScene(p)
    \/ LinkRootWidget(p)
    \/ NewWindow(p)
    \/ LoadTemplate(p)
    \/ ResetScroll(p)
    \/ BuildUI(p)
    \/ EnterExec(p)
    \/ ExecReturn(p)
    \/ PatchClear(p)
    \/ RemoveScratch(p)
    \/ ClearBundlePath(p)
    \/ ClearSystemDir(p)
    \/ ClearUserDir(p)
    \/ DestroyStaticPlugins(p)
    \/ SettingsDestroy(p)
    \/ LoggerDestroy(p)
    \/ Return(p)

Next == \E p \in Instances : Step(p)

Spec == Init /\ [][Next]_vars

\* The instances under a fair scheduler: a process that can take a step of
\* main takes it; when a program is launched and when a window is closed is
\* up to the user.
Scheduled(p) == pc[p] \notin {"start", "exec"} /\ Step(p)

Fairness == \A p \in Instances : WF_vars(Scheduled(p))

LiveSpec == Spec /\ Fairness

\* One instance alone on the machine, under every configuration.
SoloInit ==
    /\ cfg \in Configs
    /\ fs \in SUBSET Candidates
    /\ Fresh

SoloNext == Step(1)

SoloSpec == SoloInit /\ [][SoloNext]_vars

\* The allocations one after the other in an empty temp root, nothing being
\* deleted in between: an instance is launched when the earlier ones have left
\* the scratch search, and no window is closed before all have.
Searching(p) == pc[p] \in {"init", "resolve", "default", "userDir", "report",
                           "plugins", "browser", "tmpdir", "probe", "create",
                           "catch"}

\* An instance is launched when the earlier ones have left the search.
SerialLaunch(p) == \A q \in Instances : q < p => ~Searching(q)

\* A window is closed when every instance has left the search.
SerialClose(p) == \A q \in Instances : pc[q] # "start" /\ ~Searching(q)

SerialInit ==
    /\ cfg \in MachineConfigs
    /\ fs = {}
    /\ Fresh

SerialNext ==
    \E p \in Instances :
        \/ SerialLaunch(p) /\ Settings(p)
        \/ InitSubsystems(p)
        \/ ResolveOverride(p)
        \/ ResolveDefault(p)
        \/ AssignUserDir(p)
        \/ ReportInstall(p)
        \/ InitStaticPlugins(p)
        \/ BrowserInit(p)
        \/ GetTempDirectory(p)
        \/ Probe(p)
        \/ CreateDir(p)
        \/ CatchAlloc(p)
        \/ ConstructContext(p)
        \/ ContextSet(p)
        \/ SetRunParams(p)
        \/ NewEngine(p)
        \/ NewHistory(p)
        \/ NewPatch(p)
        \/ NewEvent(p)
        \/ NewScene(p)
        \/ LinkRootWidget(p)
        \/ NewWindow(p)
        \/ LoadTemplate(p)
        \/ ResetScroll(p)
        \/ BuildUI(p)
        \/ EnterExec(p)
        \/ SerialClose(p) /\ ExecReturn(p)
        \/ PatchClear(p)
        \/ RemoveScratch(p)
        \/ ClearBundlePath(p)
        \/ ClearSystemDir(p)
        \/ ClearUserDir(p)
        \/ DestroyStaticPlugins(p)
        \/ SettingsDestroy(p)
        \/ LoggerDestroy(p)
        \/ Return(p)

SerialSpec == SerialInit /\ [][SerialNext]_vars

\* ---------------------------------------------------------------- reading the log
Count(p, e) == Cardinality({k \in DOMAIN log[p] : log[p][k] = e})

\* The place of the first e in the log of p, 0 if there is none.
Pos(p, e) == LET at == {k \in DOMAIN log[p] : log[p][k] = e} IN
               IF at = {} THEN 0 ELSE CHOOSE k \in at : \A j \in at : k <= j

Called(p, e) == Pos(p, e) > 0

\* The scratch search of p is over.
SearchDone(p) == pc[p] \notin {"start", "init", "resolve", "default", "userDir",
                               "report", "plugins", "browser", "tmpdir", "probe",
                               "create", "catch"}

\* p holds a scratch path: it claimed one and has not yet given it to
\* removeRecursively.
Holds(p) == autosavePath[p] # EmptyStr /\ removed[p] = EmptyStr

\* ---------------------------------------------------------------- C1
\* C1: in every interleaving of the instances' searches, two instances never
\* hold the same non-empty scratch path: a candidate is the autosavePath of at
\* most one instance between the moment it claims it and its removeRecursively.
C1_UniqueScratchPath ==
    \A p, q \in Instances :
        (p # q /\ Holds(p) /\ Holds(q)) => autosavePath[p] # autosavePath[q]

\* One instance holds the candidate that another, having seen it absent, is
\* about to create.
C1_Witness ==
    \E p, q \in Instances :
        /\ p # q
        /\ Holds(p)
        /\ pc[q] = "create"
        /\ trypath[q] = autosavePath[p]

\* ---------------------------------------------------------------- C2
\* C2, as stated: an instance that lost the race for a candidate goes on to a
\* later counter value and finishes its search with a non-empty scratch path
\* of its own.
C2_LoserGoesOn ==
    \A p \in Instances :
        (collided[p] /\ SearchDone(p)) => autosavePath[p] # EmptyStr

\* C2, amended: an instance that lost the race for a candidate never takes
\* that name, and it does not go on either: its search ends at that candidate
\* and its scratch path stays empty, so that nothing is created or removed by
\* it.
C2_LoserStopsEmpty ==
    \A p \in Instances :
        collided[p] =>
            /\ pc[p] # "probe"
            /\ autosavePath[p] = EmptyStr
            /\ created[p] = EmptyStr
            /\ removed[p] = EmptyStr

\* An instance lost the race to one that still holds the candidate, and has
\* reached the UI loop.
C2_Witness ==
    \E p, q \in Instances :
        /\ p # q
        /\ collided[p]
        /\ Holds(q)
        /\ pc[p] = "exec"

\* ---------------------------------------------------------------- C3
\* The names the k-th successful allocation in an empty temp root is to get.
ExpectedNames ==
    << <<"TMP", "/", "CardinalRemote.", "0", "0", "0", "1">>,
       <<"TMP", "/", "CardinalRemote.", "0", "0", "0", "2">>,
       <<"TMP", "/", "CardinalRemote.", "0", "0", "0", "3">>,
       <<"TMP", "/", "CardinalRemote.", "0", "0", "0", "4">>,
       <<"TMP", "/", "CardinalRemote.", "0", "0", "0", "5">> >>

\* The number of non-empty results of the allocations before that of p.
EarlierResults(p) ==
    Cardinality({q \in Instances : q < p /\ autosavePath[q] # EmptyStr})

\* C3: allocations made one after the other in a temp root that starts empty,
\* nothing being deleted in between, return ...0001, ...0002, ... in that
\* order: each non-empty result is the lowest candidate that did not exist (so
\* the k-th of N successful allocations ends in the 4-digit k and the results
\* are pairwise distinct), and it exists on disk from then on.
C3_SerialSuffixes ==
    \A p \in Instances :
        (SearchDone(p) /\ autosavePath[p] # EmptyStr) =>
            /\ autosavePath[p] = ExpectedNames[EarlierResults(p) + 1]
            /\ ((\A q \in Instances : q < p => autosavePath[q] # EmptyStr)
                    => autosavePath[p] = ExpectedNames[p])
            /\ \A q \in Instances : q # p => autosavePath[q] # autosavePath[p]
            /\ (removed[p] = EmptyStr => autosavePath[p] \in fs)

\* Every instance has allocated, each with a result, and nothing is deleted.
C3_Witness ==
    \A p \in Instances :
        /\ SearchDone(p)
        /\ autosavePath[p] # EmptyStr
        /\ removed[p] = EmptyStr

\* ---------------------------------------------------------------- C4
\* The scratch search of p failed: createDirectories answered false, or a
\* filesystem call of the block raised.
AllocFailed(p) ==
    \/ createReturned[p] = "false"
    \/ Called(p, "d_safe_exception")

\* C4: when the creation of the first non-existing candidate fails, by a false
\* answer or by an exception of any filesystem call of the search, the result
\* is the empty string, no exception leaves the block, and startup goes on:
\* every step up to the UI loop stays enabled, the context is constructed, the
\* patch manager gets the empty autosavePath, exec is entered, and teardown
\* calls no removeRecursively.
C4_FailureIsSilent ==
    \A p \in Instances :
        AllocFailed(p) =>
            /\ autosavePath[p] = EmptyStr
            /\ pc[p] # "aborted"
            /\ (IsLocal(p) => ENABLED Step(p))
            /\ (Called(p, "new patch::Manager") =>
                    (context[p].id # NullPtr /\ patchAutosavePath[p] = EmptyStr))
            /\ (pc[p] \in {"exec", "clear", "remove", "clrBundle", "clrSystem",
                           "clrUser", "destroyPlugins", "destroySettings",
                           "destroyLogger", "return", "done"} =>
                    /\ Called(p, "CardinalPluginContext")
                    /\ Called(p, "new patch::Manager")
                    /\ Called(p, "app.exec"))
            /\ removed[p] = EmptyStr
            /\ ~Called(p, "removeRecursively")

\* A run whose createDirectories answered false, and one whose search raised,
\* have both gone through the UI loop and the whole teardown.
C4_Witness ==
    \E p, q \in Instances :
        /\ createReturned[p] = "false"
        /\ ~collided[p]
        /\ pc[p] = "done"
        /\ Called(q, "d_safe_exception")
        /\ pc[q] = "done"

\* ---------------------------------------------------------------- C5
\* The constructions of the six components, in the order of lines 186-197.
ComponentEvents == <<"new Engine", "new history::State", "new patch::Manager",
                     "new EventState", "new Scene", "new Window">>

\* The components of a context, in the same order.
ComponentsOf(c) == <<c.engine, c.history, c.patch, c.event, c.scene, c.window>>

\* C5: in every run the context holder is registered as the current context
\* before any component is constructed, bufferSize and sampleRate are set
\* before the engine is constructed, and the six components are constructed
\* once each in the order engine, history, patch manager, event state, scene,
\* window, none while an earlier one is missing.  (The objects of a run get
\* their identities in the order of their construction: the context is the
\* first, the k-th component the (k+1)-th, and once all stand nextObj stays.)
C5_ConstructionOrder ==
    \A p \in Instances :
        LET parts == ComponentsOf(context[p]) IN
        /\ \A k \in 1..6 :
             /\ parts[k] \in {NullPtr, k + 1}
             /\ (parts[k] # NullPtr =>
                     /\ context[p].id = 1
                     /\ currentContext[p] = context[p].id
                     /\ nextObj[p] > k + 1)
        /\ \A k \in 1..5 : parts[k + 1] # NullPtr => parts[k] # NullPtr
        /\ nextObj[p] =
             1 + (IF context[p].id # NullPtr THEN 1 ELSE 0)
               + Cardinality({k \in 1..6 : parts[k] # NullPtr})
        /\ (parts[1] # NullPtr =>
                (context[p].bufferSize = 512 /\ context[p].sampleRate = 48000))
        /\ (pc[p] \in {"loadTemplate", "exec", "done"} =>
                \A k \in 1..6 : parts[k] # NullPtr)
        /\ (pc[p] = "loadTemplate" =>
                /\ \A k \in 1..6 : Count(p, ComponentEvents[k]) = 1
                /\ Count(p, "contextSet") = 1
                /\ Pos(p, "contextSet") < Pos(p, ComponentEvents[1])
                /\ \A k \in 1..5 :
                     Pos(p, ComponentEvents[k]) < Pos(p, ComponentEvents[k + 1]))

\* The six components stand, just constructed.
C5_Witness ==
    \E p \in Instances :
        /\ pc[p] = "loadTemplate"
        /\ \A k \in 1..6 : ComponentsOf(context[p])[k] # NullPtr

\* ---------------------------------------------------------------- C6
\* C6: from the end of construction until teardown begins, and so whenever
\* the UI loop runs, event.rootWidget is the constructed scene and the
\* registered current context is the constructed context.
C6_WiredWhileRunning ==
    \A p \in Instances :
        pc[p] \in {"loadTemplate", "scroll", "ui", "show", "exec", "clear"} =>
            /\ context[p].scene # NullPtr
            /\ rootWidget[p] = context[p].scene
            /\ context[p].alive
            /\ context[p].id # NullPtr
            /\ currentContext[p] = context[p].id

\* The UI loop of an instance runs.
C6_Witness ==
    \E p \in Instances :
        /\ pc[p] = "exec"
        /\ rootWidget[p] = context[p].scene
        /\ rootWidget[p] # NullPtr

\* ---------------------------------------------------------------- C7
\* The directory p created is still on disk.
OwnScratchOnDisk(p) ==
    /\ created[p] # EmptyStr
    /\ created[p] \in fs
    /\ creator[created[p]] = p

C8_RegistrationCleared ==
    \A p \in Instances :
        /\ (currentContext[p] # NullPtr =>
                (context[p].id # NullPtr /\ currentContext[p] = context[p].id))
        /\ (pc[p] = "done" =>
                /\ Count(p, "contextSet") = 1
                /\ ~(currentContext[p] = context[p].id /\ ~context[p].alive))

\* ---------------------------------------------------------------- C9
\* C9: in every run that reaches the end of main initStaticPlugins and
\* destroyStaticPlugins are called once each, initStaticPlugins before the
\* engine is constructed, and destroyStaticPlugins only after the context
\* (its components and the holder) has been torn down.
C9_PluginsOutliveContext ==
    \A p \in Instances :
        /\ (context[p].engine # NullPtr => Called(p, "initStaticPlugins"))
        /\ (pc[p] \in {"destroySettings", "destroyLogger", "return", "done"} =>
                /\ Called(p, "destroyStaticPlugins")
                /\ ~context[p].alive)
        /\ (pc[p] = "done" =>
                /\ Count(p, "initStaticPlugins") = 1
                /\ Count(p, "destroyStaticPlugins") = 1
                /\ Pos(p, "initStaticPlugins") < Pos(p, "new Engine")
                /\ Pos(p, "~CardinalPluginContext") < Pos(p, "destroyStaticPlugins"))

\* ---------------------------------------------------------------- C10
\* The calls to the other collaborators and to the context object.
CollaboratorEvents ==
    {"initStaticPlugins", "destroyStaticPlugins", "CardinalPluginContext",
     "contextSet", "new Engine", "engine.setSampleRate", "new history::State",
     "new patch::Manager", "new EventState", "new Scene", "new Window",
     "patch.loadTemplate", "scene.rackScroll.reset", "patch.clear",
     "~CardinalPluginContext"}

\* C10: the settings and the logger are initialized before any other
\* collaborator is constructed or called, and they are destroyed last: after
\* their destruction no other collaborator or context object is used or
\* destroyed.
C10_SettingsFirstAndLast ==
    \A p \in Instances :
        pc[p] \in {"tmpdir", "exec", "done"} =>
            \A k \in DOMAIN log[p] :
                log[p][k] \in CollaboratorEvents =>
                    /\ Pos(p, "settings") \in 1..(k - 1)
                    /\ Pos(p, "logger::init") \in 1..(k - 1)
                    /\ (Called(p, "settings::destroy") => k < Pos(p, "settings::destroy"))
                    /\ (Called(p, "logger::destroy") => k < Pos(p, "logger::destroy"))

\* ---------------------------------------------------------------- C11
\* What p called since its exec() returned.
SinceExec(p) == SubSeq(log[p], Pos(p, "exec returned") + 1, Len(log[p]))

\* The calls of the teardown up to and including the removal of the scratch
\* path, which is made exactly when the path is non-empty.
ClearAndRemove(p) ==
    <<"patch.clear">> \o
    (IF autosavePath[p] # EmptyStr THEN <<"removeRecursively">> ELSE <<>>)

\* The releases that follow the clearing of the paths, and the exit.
ReleasesAndExit ==
    <<"destroyStaticPlugins", "settings::destroy", "logger::destroy", "return 0">>

\* The resolution of the system directory failed, or the scratch search did.
StartupFailed(p) ==
    \/ Called(p, "warn: failed to locate bundle")
    \/ AllocFailed(p)

\* C11: once exec() has returned, whatever the startup was (path resolution
\* or scratch allocation failed, or not), the teardown never stops before the
\* end of main and runs in this order: patch.clear, removeRecursively of the
\* scratch path exactly if it is non-empty, the clearing of bundlePath,
\* systemDir and userDir, destroyStaticPlugins, settings::destroy,
\* logger::destroy; then main returns 0.
C11_TeardownInOrder ==
    \A p \in Instances :
        /\ (pc[p] \in {"clear", "remove", "clrBundle", "clrSystem", "clrUser",
                       "destroyPlugins", "destroySettings", "destroyLogger",
                       "return"} => ENABLED Step(p))
        /\ (pc[p] = "clear" => SinceExec(p) = <<>>)
        /\ (pc[p] = "remove" =>
                SinceExec(p) = <<"patch.clear">> /\ removed[p] = EmptyStr)
        /\ (pc[p] \in {"clrBundle", "clrSystem", "clrUser", "destroyPlugins"} =>
                /\ SinceExec(p) = ClearAndRemove(p)
                /\ removed[p] = autosavePath[p])
        /\ (pc[p] = "clrBundle" => userDir[p] = systemDir[p])
        /\ (pc[p] = "destroyPlugins" =>
                /\ bundlePath[p] = EmptyStr
                /\ systemDir[p] = EmptyStr
                /\ userDir[p] = EmptyStr)
        /\ (pc[p] = "return" =>
                SinceExec(p) = ClearAndRemove(p) \o SubSeq(ReleasesAndExit, 1, 3))
        /\ (pc[p] = "done" =>
                /\ Called(p, "exec returned")
                /\ SubSeq(SinceExec(p), 1, Len(ClearAndRemove(p)) + 4)
                       = ClearAndRemove(p) \o ReleasesAndExit
                /\ Count(p, "return 0") = 1
                /\ bundlePath[p] = EmptyStr
                /\ systemDir[p] = EmptyStr
                /\ userDir[p] = EmptyStr)

\* A run in which both the path resolution and the scratch allocation failed
\* has left its UI loop and returned from main.
C11_Witness ==
    \E p \in Instances :
        /\ pc[p] = "done"
        /\ Called(p, "warn: failed to locate bundle")
        /\ AllocFailed(p)
        /\ Called(p, "exec returned")

\* ---------------------------------------------------------------- C12
\* The path resolution of p is over and nothing has been cleared yet.
Resolved(p) == pc[p] \in {"userDir", "report"}

\* The override applies: the source directory is compiled in and the resource
\* subfolder tested by line 106 exists.
OverrideApplies == cfg.srcDir /\ cfg.resExists

\* C12: under every platform configuration, when the source-directory override
\* is configured and its resource subfolder exists, after resolution systemDir
\* is the override path (the configured source directory, or the directory
\* whose res subfolder was tested), templatePath is that same path joined with
\* template.vcv, and no platform-default assignment was made (bundlePath, which
\* only the fallback assigns, is still empty).
C12_OverrideWins ==
    \A p \in Instances :
        (Resolved(p) /\ OverrideApplies) =>
            /\ systemDir[p] \in {SourceDir, SourceSystemDir}
            /\ templatePath[p] = Join(systemDir[p], <<"template.vcv">>)
            /\ bundlePath[p] = EmptyStr

\* ---------------------------------------------------------------- C13
\* The platform default as the claim gives it: platform A (MAC), platform B
\* (WIN, by the answer of the query) and platform C (every other).
ClaimedDefault ==
    CASE cfg.arch = "MAC" -> <<"/Library/Application Support/Cardinal">>
      [] cfg.arch = "WIN" -> IF cfg.cpf THEN <<"CPF", "/", "Cardinal">> ELSE <<>>
      [] OTHER -> <<"PREFIX", "/share/cardinal">>

\* C13: whenever the override does not apply (no source directory is
\* configured, or its resource subfolder does not exist), systemDir after
\* resolution is exactly the platform default: the application-support path
\* on MAC; on WIN the common-program-files directory joined with the product
\* name when the query answers, and empty when it fails; <prefix>/share/cardinal
\* elsewhere; and when it is non-empty bundlePath is systemDir/PluginManifests
\* and templatePath is systemDir/template.vcv.
C13_PlatformDefaults ==
    \A p \in Instances :
        (Resolved(p) /\ ~OverrideApplies) =>
            /\ systemDir[p] = ClaimedDefault
            /\ (systemDir[p] # EmptyStr =>
                    /\ bundlePath[p] = systemDir[p] \o <<"/", "PluginManifests">>
                    /\ templatePath[p] = systemDir[p] \o <<"/", "template.vcv">>)

\* ---------------------------------------------------------------- C14
\* C14: in every configuration in which systemDir is non-empty after the
\* resolution (line 131 included), whether it came from the source-directory
\* override or from a platform default, bundlePath is systemDir joined with
\* PluginManifests, templatePath is systemDir joined with template.vcv, and
\* userDir equals systemDir.
C14_DerivedFromSystemDir ==
    \A p \in Instances :
        (pc[p] = "report" /\ systemDir[p] # EmptyStr) =>
            /\ bundlePath[p] = Join(systemDir[p], <<"PluginManifests">>)
            /\ templatePath[p] = Join(systemDir[p], <<"template.vcv">>)
            /\ userDir[p] = systemDir[p]

\* ---------------------------------------------------------------- C15
\* C15: in every reachable state of the run, startup, resolution, the UI loop
\* and every single step of the teardown included, userDir is non-empty only
\* if systemDir is non-empty.
C15_UserDirOnlyWithSystemDir ==
    \A p \in Instances : userDir[p] # EmptyStr => systemDir[p] # EmptyStr

\* ---------------------------------------------------------------- C16
\* The states of p from the end of the resolution (line 131) to the clearing
\* of systemDir (line 223).
PathsInUse(p) ==
    pc[p] \notin {"start", "init", "resolve", "default", "userDir", "clrUser",
                  "destroyPlugins", "destroySettings", "destroyLogger", "return",
                  "done", "aborted"}

\* C16: under every configuration, if systemDir is empty once every fallback
\* has been tried, then userDir, bundlePath and templatePath are empty too
\* (and so is the template path given to the patch manager), the warning
\* "Failed to locate Cardinal plugin bundle" is reported once, and main goes
\* on: no step up to the construction of the context is stuck or aborts, and
\* the context is constructed.
C16_UnresolvedStaysEmpty ==
    \A p \in Instances :
        (PathsInUse(p) /\ systemDir[p] = EmptyStr) =>
            /\ userDir[p] = EmptyStr
            /\ bundlePath[p] = EmptyStr
            /\ templatePath[p] = EmptyStr
            /\ patchTemplatePath[p] = EmptyStr
            /\ (pc[p] # "report" =>
                    /\ Count(p, "warn: failed to locate bundle") = 1
                    /\ ~Called(p, "warn: system directory missing"))
            /\ (pc[p] \in {"report", "plugins", "browser", "tmpdir", "catch",
                           "context"} => ENABLED Step(p))
            /\ (pc[p] \notin {"report", "plugins", "browser", "tmpdir", "probe",
                              "create", "catch", "context"} =>
                    /\ Called(p, "CardinalPluginContext")
                    /\ context[p].id # NullPtr)

\* With nothing resolved the warning has been given and the context has just
\* been constructed.
C16_Witness ==
    \E p \in Instances :
        /\ pc[p] = "contextSet"
        /\ systemDir[p] = EmptyStr
        /\ bundlePath[p] = EmptyStr
        /\ Called(p, "warn: failed to locate bundle")
        /\ context[p].id # NullPtr

\* ---------------------------------------------------------------- C17
\* C17: in the source-directory override branch templatePath is set to the
\* template patch of the source directory only if that file exists: when the
\* resource subfolder exists and the template file does not, templatePath
\* stays empty (and when both exist it is that file).
C17_TemplateOnlyIfPresent ==
    \A p \in Instances :
        (Resolved(p) /\ OverrideApplies) =>
            /\ (~cfg.tmplExists => templatePath[p] = EmptyStr)
            /\ (cfg.tmplExists => templatePath[p] = SourceTemplate)

\* ---------------------------------------------------------------- C18
\* The step is one of p.
Moved(p) == pc'[p] # pc[p] \/ i'[p] # i[p]

\* One step of the scratch search of p, as the loop of lines 166-176 allows it.
LoopStep(p) ==
    /\ ((Moved(p) /\ pc'[p] = "probe") =>
            \/ pc[p] = "tmpdir" /\ i'[p] = 1
            \/ /\ pc[p] = "probe"
               /\ TryPath(tmp[p], i[p]) \in fs
               /\ i'[p] = i[p] + 1
               /\ createReturned[p] = "none")
    /\ ((Moved(p) /\ pc'[p] = "create") =>
            /\ pc[p] = "probe"
            /\ TryPath(tmp[p], i[p]) \notin fs
            /\ trypath'[p] = TryPath(tmp[p], i[p])
            /\ createReturned[p] = "none"
            /\ created[p] = EmptyStr)
    /\ ((Moved(p) /\ pc[p] = "create") =>
            /\ pc'[p] \in {"context", "catch"}
            /\ (pc'[p] = "context" <=> createReturned'[p] \in {"true", "false"})
            /\ (createReturned'[p] = "true" <=> created'[p] = trypath[p])
            /\ (createReturned'[p] # "true" => fs' = fs))
    /\ (~(Moved(p) /\ pc[p] = "create") =>
            /\ createReturned'[p] = createReturned[p]
            /\ created'[p] = created[p])

\* C18: the candidates that exist being fewer than the counter values, the
\* scratch search ends.  It probes the counter values 1, 2, 3, ... in
\* increasing order, going on only past a candidate that exists; it calls
\* createDirectories once, on the first candidate it finds absent, and leaves
\* the loop there whatever the answer: it probes no further candidate and
\* does not call createDirectories again.  (A filesystem call that raises
\* ends the search at once: C4.)
C18_LoopTerminates ==
    /\ [][\A p \in Instances : LoopStep(p)]_vars
    /\ [](\A p \in Instances : pc[p] = "probe" => i[p] \in Counters)
    /\ \A p \in Instances : (pc[p] \in {"probe", "create"}) ~> SearchDone(p)

\* An instance is about to create the first absent candidate after an
\* existing one, while another has left its search on a failed creation.
C18_Witness ==
    \E p, q \in Instances :
        /\ p # q
        /\ pc[p] = "create"
        /\ i[p] >= 2
        /\ createReturned[q] = "false"
        /\ pc[q] = "exec"

\* ---------------------------------------------------------------- C19
\* The object set of p is fully wired: the six components stand, the patch
\* manager has the scratch path and the template path of main, and the root
\* widget of the event state is the scene.
Wired(p) ==
    /\ \A k \in 1..6 : ComponentsOf(context[p])[k] # NullPtr
    /\ Called(p, "new patch::Manager")
    /\ patchAutosavePath[p] = autosavePath[p]
    /\ patchTemplatePath[p] = templatePath[p]
    /\ rootWidget[p] # NullPtr
    /\ rootWidget[p] = context[p].scene

\* C19: the UI loop is entered only after the object set is fully wired.
\* loadTemplate is called only after the six components are constructed, the
\* patch manager's autosavePath and templatePath are assigned and
\* event.rootWidget is the scene; the scroll reset comes after loadTemplate;
\* and exec() starts only after both.
C19_WiredBeforeLoop ==
    \A p \in Instances :
        /\ (pc[p] = "loadTemplate" =>
                /\ Wired(p)
                /\ ~Called(p, "patch.loadTemplate")
                /\ ~Called(p, "scene.rackScroll.reset")
                /\ ~Called(p, "app.exec"))
        /\ (pc[p] = "scroll" =>
                /\ Wired(p)
                /\ Count(p, "patch.loadTemplate") = 1
                /\ ~Called(p, "scene.rackScroll.reset")
                /\ ~Called(p, "app.exec"))
        /\ (pc[p] \in {"ui", "show"} =>
                /\ Wired(p)
                /\ Count(p, "scene.rackScroll.reset") = 1
                /\ Pos(p, "patch.loadTemplate") \in 1..(Pos(p, "scene.rackScroll.reset") - 1)
                /\ ~Called(p, "app.exec"))
        /\ (pc[p] = "exec" =>
                /\ Wired(p)
                /\ Count(p, "patch.loadTemplate") = 1
                /\ Count(p, "scene.rackScroll.reset") = 1
                /\ Count(p, "app.exec") = 1
                /\ Pos(p, "patch.loadTemplate") \in 1..(Pos(p, "scene.rackScroll.reset") - 1)
                /\ Pos(p, "scene.rackScroll.reset") \in 1..(Pos(p, "app.exec") - 1))

\* The UI loop of an instance with a scratch directory and a template path
\* runs.
C19_Witness ==
    \E p \in Instances :
        /\ pc[p] = "exec"
        /\ Called(p, "app.exec")
        /\ patchAutosavePath[p] # EmptyStr
        /\ patchTemplatePath[p] # EmptyStr
        /\ rootWidget[p] = context[p].scene

\* ---------------------------------------------------------------- C20
\* The step takes path away from the temp root rightfully: it is the
\* removeRecursively of an instance whose own createDirectories made that
\* very directory, and no other instance holds it.
OwnRemoval(path) ==
    \E p \in Instances :
        /\ pc[p] = "remove"
        /\ pc'[p] # "remove"
        /\ autosavePath[p] = path
        /\ createReturned[p] = "true"
        /\ created[p] = path
        /\ creator[path] = p
        /\ \A q \in Instances \ {p} : Holds(q) => autosavePath[q] # path

\* C20: an instance passes a directory to removeRecursively only if its own
\* createDirectories call on that path answered true during its search; in
\* every interleaving, what disappears from the temp root is the directory of
\* the instance that removes it: never a candidate that existed before the
\* instance probed it (a left-over, or one made by another instance), never
\* the scratch directory another instance holds, and a directory an instance
\* holds stays on disk until that instance removes it.
C20_RemovesOnlyOwn ==
    /\ [](\A p \in Instances :
            /\ (removed[p] # EmptyStr =>
                    /\ createReturned[p] = "true"
                    /\ removed[p] = created[p]
                    /\ removed[p] = autosavePath[p])
            /\ (Holds(p) => OwnScratchOnDisk(p)))
    /\ [][\A path \in fs \ fs' : OwnRemoval(path)]_vars

\* An instance has removed the directory it created while another still
\* holds its own and a left-over candidate is still there.
C20_Witness ==
    \E p, q \in Instances :
        /\ p # q
        /\ removed[p] # EmptyStr
        /\ removed[p] = created[p]
        /\ removed[p] \notin fs
        /\ Holds(q)
        /\ OwnScratchOnDisk(q)
        /\ \E c \in fs : creator[c] = 0

====
